---- MODULE Spec2Model ----
(***************************************************************************)
(* Model of nova/scheduler/least_cost.py: the WeightedHost result type,    *)
(* the built-in cost functions and weighted_sum.                           *)
(*                                                                         *)
(* Numbers.  A number is a pair <<n, d>>: the rational n/d in lowest terms *)
(* when d > 0, and the IEEE special values when d = 0: <<1,0>> is +inf,    *)
(* <<-1,0>> is -inf and <<0,0>> is NaN.  Python ints are exact; a Python   *)
(* float is a binary floating-point number and every float operation       *)
(* rounds its exact result to the nearest float, ties to even.  The model  *)
(* keeps that rounding and shortens the significand from the 53 bits of a  *)
(* C double to MantBits bits, so that the values stay small; the exponent  *)
(* is unbounded (no overflow, no underflow).                               *)
(***************************************************************************)
EXTENDS Integers, Sequences, FiniteSets

\* ------------------------------------------------------------------ bounds
MantBits == 3       \* bits of significand of the model's float
MaxHosts == 3       \* longest host_list
MaxFns == 2         \* longest weighted_fns

\* ----------------------------------------------------------------- numbers
Inf == <<1, 0>>
NegInf == <<-1, 0>>
NaN == <<0, 0>>

IsFinite(x) == x[2] > 0
IsNaN(x) == x = NaN

Abs(i) == IF i < 0 THEN -i ELSE i

RECURSIVE Gcd(_, _)
Gcd(a, b) == IF b = 0 THEN a ELSE Gcd(b, a % b)

RECURSIVE Pow2(_)
Pow2(k) == IF k = 0 THEN 1 ELSE 2 * Pow2(k - 1)

\* n/d (d > 0) in lowest terms
Rat(n, d) ==
    IF d = 1 THEN <<n, 1>>
    ELSE IF n % d = 0 THEN <<n \div d, 1>>
    ELSE LET g == Gcd(Abs(n), d) IN <<n \div g, d \div g>>

Int2Num(i) == <<i, 1>>

\* the nearest float to (n/d) * 2^e, for n > 0 and d > 0: the significand is
\* brought into [2^(MantBits-1), 2^MantBits), then rounded half to even
MantMax == Pow2(MantBits)
MantMin == Pow2(MantBits - 1)

RECURSIVE RoundPos(_, _, _)
RoundPos(n, d, e) ==
    IF n >= MantMax * d THEN RoundPos(n, 2 * d, e + 1)
    ELSE IF n < MantMin * d THEN RoundPos(2 * n, d, e - 1)
    ELSE LET q == n \div d
             r == n % d
             m == IF 2 * r > d \/ (2 * r = d /\ q % 2 = 1) THEN q + 1 ELSE q
         IN  IF e >= 0 THEN Rat(m * Pow2(e), 1) ELSE Rat(m, Pow2(-e))

\* rounding of an exact value to a float; the special values are floats, and
\* so is every integer of at most MantBits bits
Round(x) ==
    IF ~IsFinite(x) THEN x
    ELSE IF x[2] = 1 /\ x[1] <= MantMax /\ -x[1] <= MantMax THEN x
    ELSE IF x[1] > 0 THEN RoundPos(x[1], x[2], 0)
    ELSE LET p == RoundPos(-x[1], x[2], 0) IN <<-p[1], p[2]>>

\* float(x)
ToFloat(x) == Round(x)

Sign(x) == IF x[1] > 0 THEN 1 ELSE IF x[1] < 0 THEN -1 ELSE 0

\* a - b: exact on ints, IEEE on the special values
Sub(a, b) ==
    IF IsNaN(a) \/ IsNaN(b) THEN NaN
    ELSE IF IsFinite(a) /\ IsFinite(b)
         THEN Rat(a[1] * b[2] - b[1] * a[2], a[2] * b[2])
    ELSE IF IsFinite(b) THEN a
    ELSE IF IsFinite(a) THEN <<-b[1], 0>>
    ELSE IF a = b THEN NaN ELSE a

\* -1 * x, of a cost function
Neg(x) == <<-x[1], x[2]>>

\* float addition
FAdd(a, b) ==
    IF IsNaN(a) \/ IsNaN(b) THEN NaN
    ELSE IF IsFinite(a) /\ IsFinite(b)
         THEN Round(Rat(a[1] * b[2] + b[1] * a[2], a[2] * b[2]))
    ELSE IF IsFinite(b) THEN a
    ELSE IF IsFinite(a) THEN b
    ELSE IF a = b THEN a ELSE NaN

\* float multiplication
FMul(a, b) ==
    IF IsNaN(a) \/ IsNaN(b) THEN NaN
    ELSE IF IsFinite(a) /\ IsFinite(b)
         THEN Round(Rat(a[1] * b[1], a[2] * b[2]))
    ELSE IF Sign(a) = 0 \/ Sign(b) = 0 THEN NaN
    ELSE <<Sign(a) * Sign(b), 0>>

\* float division by a divisor that is not zero
FDiv(a, b) ==
    IF IsNaN(a) \/ IsNaN(b) THEN NaN
    ELSE IF IsFinite(a) /\ IsFinite(b)
         THEN Round(Rat(a[1] * b[2] * Sign(b), a[2] * Abs(b[1])))
    ELSE IF IsFinite(a) THEN <<0, 1>>
    ELSE IF IsFinite(b) THEN <<Sign(a) * Sign(b), 0>>
    ELSE NaN

\* a == b and a < b on numbers: every comparison with NaN is false
NumEq(a, b) == ~IsNaN(a) /\ ~IsNaN(b) /\ a = b
NumLt(a, b) ==
    IF IsNaN(a) \/ IsNaN(b) THEN FALSE
    ELSE IF IsFinite(a) /\ IsFinite(b) THEN a[1] * b[2] < b[1] * a[2]
    ELSE IF IsFinite(a) THEN b = Inf
    ELSE IF IsFinite(b) THEN a = NegInf
    ELSE a = NegInf /\ b = Inf

Zero == Int2Num(0)
One == Int2Num(1)

\* --------------------------------------------------------- cost functions
\* a host snapshot: the fields of HostInfo the cost functions read
HostInfo(ram, vcpus, disk) ==
    [free_ram_mb |-> ram, free_vcpus |-> vcpus, free_disk_gb |-> disk]

noop_cost_fn(host_info) == One
compute_fill_first_cost_fn(host_info) == host_info.free_ram_mb
compute_even_fill_vcpus_cost_fn(host_info) == Neg(host_info.free_vcpus)
compute_even_fill_ram_cost_fn(host_info) == Neg(host_info.free_ram_mb)
compute_even_fill_disk_cost_fn(host_info) == Neg(host_info.free_disk_gb)

CostFns == <<"noop_cost_fn", "compute_fill_first_cost_fn",
             "compute_even_fill_vcpus_cost_fn", "compute_even_fill_ram_cost_fn",
             "compute_even_fill_disk_cost_fn">>

\* fn(host_info, options): the call of a cost function by its name
Call(fn, host_info) ==
    CASE fn = "noop_cost_fn" -> noop_cost_fn(host_info)
      [] fn = "compute_fill_first_cost_fn" -> compute_fill_first_cost_fn(host_info)
      [] fn = "compute_even_fill_vcpus_cost_fn" -> compute_even_fill_vcpus_cost_fn(host_info)
      [] fn = "compute_even_fill_ram_cost_fn" -> compute_even_fill_ram_cost_fn(host_info)
      [] fn = "compute_even_fill_disk_cost_fn" -> compute_even_fill_disk_cost_fn(host_info)

\* ------------------------------------------------------------ WeightedHost
None == "None"
NoHostInfo == HostInfo(NaN, NaN, NaN)    \* hostinfo=None

\* WeightedHost.__init__
WeightedHost(weight, host, blob, zone, hostinfo) ==
    [weight |-> weight, blob |-> blob, host |-> host, zone |-> zone,
     hostinfo |-> hostinfo]

\* truth value of a string or None
Truthy(v) == v # None /\ v # ""

\* to_dict with "if self.weight:" before the weight too
to_dict_OmitsZeroWeight(self) ==
    LET keys == (IF self.weight # Zero THEN {"weight"} ELSE {})
                \cup (IF Truthy(self.blob) THEN {"blob"} ELSE {})
                \cup (IF Truthy(self.host) THEN {"host"} ELSE {})
                \cup (IF Truthy(self.zone) THEN {"zone"} ELSE {})
    IN  [k \in keys |-> self[k]]

\* WeightedHost.to_dict
to_dict(self) ==
    LET keys == {"weight"} \cup (IF Truthy(self.blob) THEN {"blob"} ELSE {})
                           \cup (IF Truthy(self.host) THEN {"host"} ELSE {})
                           \cup (IF Truthy(self.zone) THEN {"zone"} ELSE {})
    IN  [k \in keys |-> self[k]]

\* ------------------------------------------------------------ weighted_sum
\* min(row) and max(row) of Python: the first element, replaced by every later
\* element that compares less (greater)
RECURSIVE MinFrom(_, _, _)
MinFrom(row, i, cur) ==
    IF i > Len(row) THEN cur
    ELSE MinFrom(row, i + 1, IF NumLt(row[i], cur) THEN row[i] ELSE cur)
PyMin(row) == MinFrom(row, 2, row[1])

RECURSIVE MaxFrom(_, _, _)
MaxFrom(row, i, cur) ==
    IF i > Len(row) THEN cur
    ELSE MaxFrom(row, i + 1, IF NumLt(cur, row[i]) THEN row[i] ELSE cur)
PyMax(row) == MaxFrom(row, 2, row[1])

\* scores: one row per function, one column per host
Scores(fns, hosts) ==
    [f \in 1..Len(fns) |-> [h \in 1..Len(hosts) |-> Call(fns[f][2], hosts[h][2])]]

\* weight * float(score) / (score_max - score_min): score_min not subtracted
AdjustedScore_RawScore(weight, score, score_min, score_max) ==
    FDiv(FMul(weight, ToFloat(score)), ToFloat(Sub(score_max, score_min)))

\* float(score - score_min) / (score_max - score_min): the weight left out
AdjustedScore_Unweighted(weight, score, score_min, score_max) ==
    FDiv(ToFloat(Sub(score, score_min)), ToFloat(Sub(score_max, score_min)))

\* weight * float(score - score_min) / (score_max - score_min)
AdjustedScore(weight, score, score_min, score_max) ==
    FDiv(FMul(weight, ToFloat(Sub(score, score_min))),
         ToFloat(Sub(score_max, score_min)))

\* the division raises ZeroDivisionError when the divisor is 0
DividesByZero(score_min, score_max) == Sub(score_max, score_min) = Zero

AdjustedScores(fns, sc, mins, maxes) ==
    [f \in 1..Len(sc) |->
        [h \in 1..Len(sc[f]) |-> AdjustedScore(fns[f][1], sc[f][h], mins[f], maxes[f])]]

\* final_scores[idx] += col, row after row, from 0.0
RECURSIVE SumColumn(_, _, _)
SumColumn(adj, idx, f) ==
    IF f = 0 THEN Zero ELSE FAdd(SumColumn(adj, idx, f - 1), adj[f][idx])
FinalScores(adj, n) == [idx \in 1..n |-> SumColumn(adj, idx, Len(adj))]

\* host names in the order of Python's string comparison
HostNames == <<"host1", "host2", "host3", "host4">>
NameRank(h) == CHOOSE i \in 1..Len(HostNames) : HostNames[i] = h

\* (score, (host, hostinfo)) < (score', (host', hostinfo')): the first pair of
\* items that are not == decides.  Two entries of one host_list never have the
\* same host, so the comparison never reaches the hostinfo objects.
TupleLt(a, b) ==
    IF ~NumEq(a[1], b[1]) THEN NumLt(a[1], b[1])
    ELSE IF a[2][1] # b[2][1] THEN NameRank(a[2][1]) < NameRank(b[2][1])
    ELSE FALSE

Reverse(s) == [i \in 1..Len(s) |-> s[Len(s) + 1 - i]]

\* sorted(): the list sort of CPython on a list shorter than 64.  count_run
\* finds the run the list starts with, a strictly descending run is reversed,
\* and binarysort inserts every later element by binary search.
RECURSIVE RunEnd(_, _, _)
RunEnd(s, k, descending) ==
    IF k < Len(s) /\ (TupleLt(s[k + 1], s[k]) <=> descending)
    THEN RunEnd(s, k + 1, descending) ELSE k

RECURSIVE InsertionPoint(_, _, _, _)
InsertionPoint(s, pivot, l, r) ==
    IF l >= r THEN l
    ELSE LET p == l + ((r - l) \div 2)
         IN  IF TupleLt(pivot, s[p]) THEN InsertionPoint(s, pivot, l, p)
             ELSE InsertionPoint(s, pivot, p + 1, r)

RECURSIVE BinarySort(_, _)
BinarySort(s, start) ==
    IF start > Len(s) THEN s
    ELSE LET pivot == s[start]
             l == InsertionPoint(s, pivot, 1, start)
             t == [i \in 1..Len(s) |->
                     IF i < l \/ i > start THEN s[i]
                     ELSE IF i = l THEN pivot ELSE s[i - 1]]
         IN  BinarySort(t, start + 1)

\* the list left as it is
PySorted_Unsorted(s) == s

PySorted(s) ==
    IF Len(s) < 2 THEN s
    ELSE LET descending == TupleLt(s[2], s[1])
             k == RunEnd(s, 2, descending)
             run == IF descending
                    THEN Reverse(SubSeq(s, 1, k)) \o SubSeq(s, k + 1, Len(s))
                    ELSE s
         IN  BinarySort(run, k + 1)

\* (final_scores[idx], host_tuple) for every host
Superimpose(fs, hosts) == [idx \in 1..Len(hosts) |-> <<fs[idx], hosts[idx]>>]

\* weighted_sum as a function of its arguments: its locals as far as it gets,
\* the exception it raises (or None) and <<the WeightedHost it returns>>
Outcome(sc, mins, maxes, adj, fs, exc, value) ==
    [scores |-> sc, score_mins |-> mins, score_maxes |-> maxes,
     adjusted_scores |-> adj, final_scores |-> fs, raised |-> exc, value |-> value]

\* final_scores[-1] in place of final_scores[0]
Select_Last(sc, mins, maxes, adj, fs) ==
    IF Len(fs) = 0
    THEN Outcome(sc, mins, maxes, adj, fs, "IndexError", <<>>)
    ELSE Outcome(sc, mins, maxes, adj, fs, None,
                 <<WeightedHost(fs[Len(fs)][1], fs[Len(fs)][2][1], None, None,
                                fs[Len(fs)][2][2])>>)

\* weight, (host, hostinfo) = final_scores[0]; return WeightedHost(...)
Select(sc, mins, maxes, adj, fs) ==
    IF Len(fs) = 0
    THEN Outcome(sc, mins, maxes, adj, fs, "IndexError", <<>>)
    ELSE Outcome(sc, mins, maxes, adj, fs, None,
                 <<WeightedHost(fs[1][1], fs[1][2][1], None, None, fs[1][2][2])>>)

weighted_sum(fns, hosts) ==
    LET sc == Scores(fns, hosts)
    IN  IF Len(fns) > 0 /\ Len(hosts) = 0
        THEN Outcome(sc, <<>>, <<>>, <<>>, <<>>, "ValueError", <<>>)
        ELSE LET mins == [f \in 1..Len(fns) |-> PyMin(sc[f])]
                 maxes == [f \in 1..Len(fns) |-> PyMax(sc[f])]
             IN  IF \E f \in 1..Len(fns) : DividesByZero(mins[f], maxes[f])
                 THEN Outcome(sc, mins, maxes, <<>>, <<>>, "ZeroDivisionError", <<>>)
                 ELSE LET adj == AdjustedScores(fns, sc, mins, maxes)
                      IN  Select(sc, mins, maxes, adj,
                                 PySorted(Superimpose(FinalScores(adj, Len(hosts)), hosts)))

\* ------------------------------------------------------------------ inputs
\* sequences of length n over S
RECURSIVE Seqs(_, _)
Seqs(S, n) ==
    IF n = 0 THEN {<<>>} ELSE UNION {{Append(q, e) : e \in S} : q \in Seqs(S, n - 1)}

\* the snapshots of a pass: (free_ram_mb, vcpus free, free_disk_gb)
Capacities == {<<0, 1, 0>>, <<1, 0, 0>>, <<3, 0, 1>>, <<3, 1, 1>>}
FreeVcpus == {0, 1}
Snapshots == {HostInfo(Int2Num(c[1]), Int2Num(c[2]), Int2Num(c[3])) : c \in Capacities}

\* a snapshot whose free_ram_mb is not finite
NonFiniteSnapshots ==
    {HostInfo(r, Int2Num(v), Int2Num(0)) : r \in {Inf, NegInf, NaN}, v \in FreeVcpus}

Weights == {Zero, One}

\* the names of a list of n hosts, in ascending or in descending order
NameOrders(n) ==
    {[i \in 1..n |-> HostNames[i]], [i \in 1..n |-> HostNames[n + 1 - i]]}

\* the host lists of a scheduling pass: every host appears once
HostLists(snapshots) ==
    UNION {{[i \in 1..n |-> <<names[i], infos[i]>>] :
                names \in NameOrders(n),
                infos \in Seqs(snapshots, n)} : n \in 0..MaxHosts}

\* the subsequences of length n of the sequence q
RECURSIVE SubSeqs(_, _)
SubSeqs(q, n) ==
    IF n = 0 THEN {<<>>}
    ELSE IF Len(q) < n THEN {}
    ELSE SubSeqs(Tail(q), n) \cup {<<Head(q)>> \o t : t \in SubSeqs(Tail(q), n - 1)}

\* the function lists: (weight, fn) pairs, every function configured at most
\* once, in the order in which the module defines the functions
FnLists ==
    UNION {{[i \in 1..n |-> <<ws[i], fs[i]>>] :
                fs \in SubSeqs(CostFns, n), ws \in Seqs(Weights, n)} : n \in 0..MaxFns}

\* ----------------------------------------------------------- state machine
VARIABLES
    pc,               \* "start": weighted_sum is to be called; "new": a
                      \* WeightedHost is to be constructed by a caller;
                      \* "returned", "raised", "built", "serialized"
    weighted_fns,     \* argument of weighted_sum
    host_list,        \* argument of weighted_sum
    scores,           \* the locals of weighted_sum, as far as it got
    score_mins,
    score_maxes,
    adjusted_scores,
    final_scores,     \* the sorted (score, host_tuple) list
    raised,           \* the exception weighted_sum raised, or None
    wh,               \* <<the WeightedHost returned or constructed>>, or <<>>
    x                 \* <<the dict of to_dict>>, or <<>>

vars == <<pc, weighted_fns, host_list, scores, score_mins, score_maxes,
          adjusted_scores, final_scores, raised, wh, x>>

Blank ==
    /\ scores = <<>>
    /\ score_mins = <<>>
    /\ score_maxes = <<>>
    /\ adjusted_scores = <<>>
    /\ final_scores = <<>>
    /\ raised = None
    /\ wh = <<>>
    /\ x = <<>>

InitWith(snapshots) ==
    /\ Blank
    /\ \/ /\ pc = "start"
          /\ weighted_fns \in FnLists
          /\ host_list \in HostLists(snapshots)
       \/ /\ pc = "new"
          /\ weighted_fns = <<>>
          /\ host_list = <<>>

Init == InitWith(Snapshots)

\* weighted_sum(weighted_fns, host_list, options), from the call to the return
\* or the exception
WeightedSum ==
    /\ pc = "start"
    /\ \E out \in {weighted_sum(weighted_fns, host_list)} :
          /\ scores' = out.scores
          /\ score_mins' = out.score_mins
          /\ score_maxes' = out.score_maxes
          /\ adjusted_scores' = out.adjusted_scores
          /\ final_scores' = out.final_scores
          /\ raised' = out.raised
          /\ wh' = out.value
          /\ pc' = IF out.raised = None THEN "returned" ELSE "raised"
    /\ UNCHANGED <<weighted_fns, host_list, x>>

\* a caller constructs a WeightedHost of its own
NewWeightedHost ==
    /\ pc = "new"
    /\ \E weight \in Weights \cup {Int2Num(3)},
          host \in {None, "", HostNames[1]},
          blob \in {None, "", "blob"},
          zone \in {None, "", "zone"},
          hostinfo \in {NoHostInfo} \cup Snapshots :
          wh' = <<WeightedHost(weight, host, blob, zone, hostinfo)>>
    /\ pc' = "built"
    /\ UNCHANGED <<weighted_fns, host_list, scores, score_mins, score_maxes,
                   adjusted_scores, final_scores, raised, x>>

\* wh.to_dict()
ToDict ==
    /\ pc \in {"returned", "built"}
    /\ x' = <<to_dict(wh[1])>>
    /\ pc' = "serialized"
    /\ UNCHANGED <<weighted_fns, host_list, scores, score_mins, score_maxes,
                   adjusted_scores, final_scores, raised, wh>>

Next == WeightedSum \/ NewWeightedHost \/ ToDict

Spec == Init /\ [][Next]_vars

\* the same program on host lists in which some free_ram_mb is not finite
InitNonFinite ==
    /\ InitWith(Snapshots \cup NonFiniteSnapshots)
    /\ pc = "start"
    /\ \E h \in 1..Len(host_list) : host_list[h][2] \in NonFiniteSnapshots

NextWeigh == WeightedSum \/ ToDict

SpecNonFinite == InitNonFinite /\ [][NextWeigh]_vars

\* ------------------------------------------------------------- properties
\* what the specification says of a pass, stated on the arguments alone
Hosts == 1..Len(host_list)
Fns == 1..Len(weighted_fns)
Cost(f, h) == Call(weighted_fns[f][2], host_list[h][2])
RowLeast(f) == CHOOSE m \in {Cost(f, h) : h \in Hosts} :
                   \A h \in Hosts : ~NumLt(Cost(f, h), m)
RowMost(f) == CHOOSE m \in {Cost(f, h) : h \in Hosts} :
                  \A h \in Hosts : ~NumLt(m, Cost(f, h))
RowTied(f) == RowLeast(f) = RowMost(f)
AllFinite == \A f \in Fns, h \in Hosts : IsFinite(Cost(f, h))

\* the weighted, normalized cost of a host under one function, and the
\* aggregates of the hosts: for each host the sum over the functions, in list
\* order
Term(weight, cost, least, most) ==
    FDiv(FMul(weight, ToFloat(Sub(cost, least))), ToFloat(Sub(most, least)))
RECURSIVE TermsUpTo(_, _, _, _)
TermsUpTo(least, most, h, f) ==
    IF f = 0 THEN Zero
    ELSE FAdd(TermsUpTo(least, most, h, f - 1),
              Term(weighted_fns[f][1], Cost(f, h), least[f], most[f]))
Aggregates ==
    LET least == [f \in Fns |-> RowLeast(f)]
        most == [f \in Fns |-> RowMost(f)]
    IN  [h \in Hosts |-> TermsUpTo(least, most, h, Len(weighted_fns))]

NonNegativeWeights == \A f \in Fns : ~NumLt(weighted_fns[f][1], Zero)
PositiveWeights == \A f \in Fns : NumLt(Zero, weighted_fns[f][1])

Finished == pc \in {"returned", "raised"}
IsHostOf(w, h) == w.host = host_list[h][1] /\ w.hostinfo = host_list[h][2]

\* C1: for a non-empty host list and a non-empty function list with finite
\* costs, weighted_sum raises nothing and returns one WeightedHost whose host
\* and hostinfo are one of the pairs of the host list.
C1_ReturnsOneInputHost ==
    (Finished /\ host_list # <<>> /\ weighted_fns # <<>> /\ AllFinite)
        => /\ raised = None
           /\ Len(wh) = 1
           /\ \E h \in Hosts : IsHostOf(wh[1], h)

\* C2: a function whose raw cost is the same for every host does not make
\* weighted_sum fail: it adds 0 to every aggregate and a host is selected.
C2_TiedRowContributesZero ==
    (Finished /\ host_list # <<>> /\ weighted_fns # <<>> /\ \E f \in Fns : RowTied(f))
        => /\ raised = None
           /\ Len(wh) = 1
           /\ \A f \in Fns : RowTied(f) =>
                 \A h \in Hosts : adjusted_scores[f][h] = Zero

\* C3: with an empty host list or an empty function list weighted_sum reports
\* InvalidInput and returns no WeightedHost.
C3_EmptyInputIsInvalidInput ==
    (Finished /\ (host_list = <<>> \/ weighted_fns = <<>>))
        => raised = "InvalidInput" /\ wh = <<>>

\* C4: the WeightedHost returned carries the lowest aggregate of the pass, and
\* its host is a host of that aggregate.
C4_ReturnsLowestAggregate ==
    (pc = "returned" /\ weighted_fns # <<>>)
        => LET agg == Aggregates
           IN  /\ \A g \in Hosts : ~NumLt(agg[g], wh[1].weight)
               /\ \E h \in Hosts : IsHostOf(wh[1], h) /\ agg[h] = wh[1].weight

C4_Witness ==
    /\ pc = "returned"
    /\ Len(weighted_fns) = 2
    /\ Len(host_list) = 3
    /\ PositiveWeights
    /\ IsHostOf(wh[1], 2)
    /\ NumLt(Aggregates[2], Aggregates[3])
    /\ NumLt(Aggregates[3], Aggregates[1])

\* C5: among the hosts of the lowest aggregate, weighted_sum returns the one
\* that comes first in host_list, whatever the host names are.
C5_TieGoesToFirstInList ==
    (pc = "returned" /\ weighted_fns # <<>>)
        => LET agg == Aggregates
           IN  \A h \in Hosts :
                  IsHostOf(wh[1], h) => \A g \in 1..(h - 1) : agg[g] # agg[h]

\* C6: when a cost function returns NaN or an infinity for some host,
\* weighted_sum raises ComputationError and returns no WeightedHost.
C6_NonFiniteIsComputationError ==
    (Finished /\ weighted_fns # <<>> /\ ~AllFinite)
        => raised = "ComputationError" /\ wh = <<>>

\* C7: the minimum and maximum of a row are those of the function over the
\* host list of the pass, and in a row that is not tied every normalized
\* value (the adjusted score under weight 1.0) lies in [0, 1], is 0 for a host
\* of the minimum and 1 for a host of the maximum.
NormalizedScore(f, h) ==
    AdjustedScore(One, scores[f][h], score_mins[f], score_maxes[f])

C7_NormalizedInUnitInterval ==
    (Finished /\ host_list # <<>>)
        => \A f \in Fns :
              LET least == RowLeast(f)
                  most == RowMost(f)
              IN  /\ score_mins[f] = least
                  /\ score_maxes[f] = most
                  /\ (least # most) =>
                        \A h \in Hosts :
                           LET nv == NormalizedScore(f, h)
                           IN  /\ ~NumLt(nv, Zero)
                               /\ ~NumLt(One, nv)
                               /\ (Cost(f, h) = least) => (nv = Zero)
                               /\ (Cost(f, h) = most) => (nv = One)
                               /\ (pc = "returned" /\ weighted_fns[f][1] = One)
                                     => adjusted_scores[f][h] = nv

C7_Witness ==
    /\ pc = "returned"
    /\ Len(host_list) = 3
    /\ \E f \in Fns : /\ Sub(RowMost(f), RowLeast(f)) = Int2Num(3)
                      /\ weighted_fns[f][1] = One
                      /\ adjusted_scores[f][1] = One
                      /\ NumLt(Zero, adjusted_scores[f][2])
                      /\ NumLt(adjusted_scores[f][2], One)
                      /\ adjusted_scores[f][3] = Zero

\* C8: multiplying every weight by one positive constant c leaves the host
\* returned unchanged and multiplies the returned weight by c.
Scaled(fns, c) == [f \in 1..Len(fns) |-> <<FMul(c, fns[f][1]), fns[f][2]>>]
SameWinnerUnder(c) ==
    \E out \in {weighted_sum(Scaled(weighted_fns, c), host_list)} :
        /\ out.raised = None
        /\ out.value[1].host = wh[1].host
        /\ out.value[1].hostinfo = wh[1].hostinfo
        /\ out.value[1].weight = FMul(c, wh[1].weight)

PositiveConstants == {Int2Num(2), Int2Num(3)}
PowersOfTwo == {Int2Num(4), <<1, 2>>}
AttainsEveryMin(h) == \A f \in Fns : Cost(f, h) = RowLeast(f)
C9_Case ==
    /\ Finished
    /\ weighted_fns # <<>>
    /\ host_list # <<>>
    /\ NonNegativeWeights
    /\ \A f \in Fns : ~RowTied(f)

C9_LeastOfEveryFunctionWins ==
    C9_Case => \A h \in Hosts :
                  AttainsEveryMin(h) =>
                     raised = None /\ IsHostOf(wh[1], h) /\ wh[1].weight = Zero

\* C9 as amended: the WeightedHost returned has weight 0, and it is that host
\* when no other host has aggregate 0 too, which is so when every weight is
\* positive and no other host attains every minimum.
C9_LeastOfEveryFunctionScoresZero ==
    C9_Case =>
        LET agg == Aggregates
            best == {h \in Hosts : AttainsEveryMin(h)}
        IN  \A h \in best :
               /\ raised = None
               /\ wh[1].weight = Zero
               /\ (\A g \in Hosts \ {h} : agg[g] # Zero) => IsHostOf(wh[1], h)
               /\ (PositiveWeights /\ best = {h}) => IsHostOf(wh[1], h)

C9_Witness ==
    /\ pc = "returned"
    /\ Len(weighted_fns) = 2
    /\ PositiveWeights
    /\ Len(host_list) = 3
    /\ AttainsEveryMin(2)
    /\ ~AttainsEveryMin(1)
    /\ ~AttainsEveryMin(3)
    /\ IsHostOf(wh[1], 2)
    /\ host_list[2][1] = HostNames[2]
    /\ wh[1].weight = Zero

\* C10: the dict of to_dict always has the key weight, has each of host, blob
\* and zone exactly when that field is not empty, and never has hostinfo; the
\* WeightedHost that weighted_sum returns serializes to weight and host.
NonEmpty(v) == v # None /\ v # ""
C10_ToDictKeys ==
    (pc = "serialized")
        => LET keys == DOMAIN x[1]
               self == wh[1]
           IN  /\ "weight" \in keys /\ x[1]["weight"] = self.weight
               /\ ("host" \in keys) <=> NonEmpty(self.host)
               /\ ("blob" \in keys) <=> NonEmpty(self.blob)
               /\ ("zone" \in keys) <=> NonEmpty(self.zone)
               /\ \A k \in keys \ {"weight"} : x[1][k] = self[k]
               /\ keys \subseteq {"weight", "host", "blob", "zone"}
               /\ (host_list # <<>>) => keys = {"weight", "host"}

C10_Witness ==
    /\ pc = "serialized"
    /\ host_list # <<>>
    /\ weighted_fns # <<>>
    /\ PositiveWeights
    /\ wh[1].weight = Zero
    /\ DOMAIN x[1] = {"weight", "host"}
====
